---- MODULE Spec2Model ----
(***************************************************************************)
(* Model of src/main.cxx: the round-based batch-update driver              *)
(* (handleOptions) and its helpers (handleInputTransform, normalize,       *)
(* degreeDistributionToProbability, calculateInDegreeDistribution,         *)
(* KLDivergence, handleUpdateNature, createOutputFile).                    *)
(*                                                                         *)
(* A double is modelled as a pair <<n, d>> standing for n / d.  A pair     *)
(* with d = 0 is the result of a floating-point division by zero           *)
(* (<<0, 0>> is NaN, <<n, 0>> with n # 0 an infinity): such a value is     *)
(* neither equal to 0.0 nor a finite number.                               *)
(***************************************************************************)
EXTENDS Integers, Sequences, FiniteSets, TLC

(***************************************************************************)
(* Bounds of the model.                                                    *)
(***************************************************************************)
MaxTransforms == 2      \* longest transform list
MaxMultiBatch == 2      \* largest configured round count
MaxRounds == 3          \* rounds explored when the loop does not stop by itself
MaxInsertions == 1      \* most edges a generated batch inserts
MaxDeletions == 1       \* most edges a generated batch deletes
MaxVecLen == 2          \* longest vector handed to KLDivergence on its own
DistVertices == 3       \* most vertices of a graph handed to the analyzer on its own

Vertices == {1, 2}

Min(a, b) == IF a < b THEN a ELSE b
Max(a, b) == IF a > b THEN a ELSE b

SeqsUpTo(S, n) == UNION {[1..k -> S] : k \in 0..n}

Range(s) == {s[k] : k \in DOMAIN s}

(***************************************************************************)
(* Doubles.                                                                *)
(***************************************************************************)
Zero == <<0, 1>>
IsZero(x) == x[2] # 0 /\ x[1] = 0

(***************************************************************************)
(* KLDivergence (lines 173-189).  The loop runs i over [0, maxSize); an    *)
(* index beyond a vector's size reads as 0.0.  The result records whether  *)
(* std::invalid_argument was thrown and, if not, the terms pVal*log(pVal/  *)
(* qVal) that were accumulated, as the pairs <<pVal, qVal>>.               *)
(***************************************************************************)
RECURSIVE KLLoop(_, _, _, _, _)
KLLoop(P, Q, i, maxSize, acc) ==
  IF i >= maxSize THEN [threw |-> FALSE, terms |-> acc]
  ELSE LET pVal == IF i < Len(P) THEN P[i + 1] ELSE Zero
           qVal == IF i < Len(Q) THEN Q[i + 1] ELSE Zero
       IN  IF ~IsZero(pVal)
             THEN IF IsZero(qVal)
                    THEN [threw |-> TRUE, terms |-> <<>>]
                    ELSE KLLoop(P, Q, i + 1, maxSize, Append(acc, <<pVal, qVal>>))
             ELSE KLLoop(P, Q, i + 1, maxSize, acc)

KLDivergenceCommonPrefix(P, Q) == KLLoop(P, Q, 0, Min(Len(P), Len(Q)), <<>>)

KLDivergence(P, Q) == KLLoop(P, Q, 0, Max(Len(P), Len(Q)), <<>>)

(***************************************************************************)
(* normalize (lines 191-201): every value divided by the sum of all of     *)
(* them.  Nothing is thrown: an empty input gives an empty vector, and a   *)
(* zero sum gives value / 0.0 for every entry.  Weights are whole numbers. *)
(***************************************************************************)
RECURSIVE SumSeq(_)
SumSeq(s) == IF s = <<>> THEN 0 ELSE s[1] + SumSeq(Tail(s))

normalize(values) ==
  LET sum == SumSeq(values)
  IN  [k \in 1..Len(values) |-> <<values[k], sum>>]

(***************************************************************************)
(* calculateInDegreeDistribution (lines 216-222) and                       *)
(* degreeDistributionToProbability (lines 203-213).  A distribution is a   *)
(* function from the degrees seen to the number of vertices having them;   *)
(* std::map iterates its keys in ascending order.                          *)
(***************************************************************************)
indegree(graph, u) == Cardinality({e \in graph.E : e[2] = u})

calculateInDegreeDistribution(graph) ==
  LET degrees == {indegree(graph, u) : u \in graph.V}
  IN  [d \in degrees |-> Cardinality({u \in graph.V : indegree(graph, u) = d})]

RECURSIVE AscendingKeys(_)
AscendingKeys(S) ==
  IF S = {} THEN <<>>
  ELSE LET least == CHOOSE k \in S : \A j \in S : k <= j
       IN  <<least>> \o AscendingKeys(S \ {least})

RECURSIVE SumCounts(_, _)
SumCounts(distribution, keys) ==
  IF keys = <<>> THEN 0
  ELSE distribution[keys[1]] + SumCounts(distribution, Tail(keys))

totalVerticesKeyCount(distribution) == Cardinality(DOMAIN distribution)

totalVertices(distribution) ==
  SumCounts(distribution, AscendingKeys(DOMAIN distribution))

degreeDistributionToProbability(distribution) ==
  LET keys == AscendingKeys(DOMAIN distribution)
  IN  [k \in 1..Len(keys) |-> <<distribution[keys[k]], totalVertices(distribution)>>]

(***************************************************************************)
(* Graphs.  A graph is a set V of vertex keys and a set E of directed      *)
(* edges <<u, v>>; graph.size() is the number of edges.  Edge weights play *)
(* no part in what is modelled and are left out.                           *)
(***************************************************************************)
EmptyGraph == [V |-> {}, E |-> {}]

size(graph) == Cardinality(graph.E)

transpose(graph) == [V |-> graph.V, E |-> {<<e[2], e[1]>> : e \in graph.E}]

symmetrize(graph) ==
  [V |-> graph.V, E |-> graph.E \cup {<<e[2], e[1]>> : e \in graph.E}]

applyBatchUpdateU(graph, dels, ins) ==
  [V |-> graph.V \cup {e[1] : e \in Range(ins)} \cup {e[2] : e \in Range(ins)},
   E |-> (graph.E \ Range(dels)) \cup Range(ins)]

\* What readMtxW may find in the input file.
InputGraphs ==
  {EmptyGraph,
   [V |-> {1, 2}, E |-> {<<1, 2>>}],
   [V |-> {1, 2}, E |-> {<<1, 2>>, <<2, 1>>}]}

(***************************************************************************)
(* handleInputFormat (lines 47-57) and handleInputTransform (lines 89-108).*)
(***************************************************************************)
InputFormats == {"matrix-market", "edgelist", "snap-temporal", "graphml"}

UnknownInputFormat(inputFormat) ==
  inputFormat \notin {"matrix-market", "edgelist", "snap-temporal"}

UnknownInputTransformNever(name) == FALSE

UnknownInputTransform(name) ==
  name \notin {"", "transpose", "symmetrize", "unsymmetrize", "loop-deadends",
               "loop-vertices", "clear-weights", "set-weights"}

handleInputTransform(name, graph) ==
  IF name = "transpose" THEN transpose(graph)
  ELSE IF name = "symmetrize" THEN symmetrize(graph)
  ELSE graph

(***************************************************************************)
(* handleUpdateNature (lines 240-256): which update natures throw, which   *)
(* ones call a generator, and which one assigns the weights it is handed   *)
(* back.  The generators themselves are external: a batch is any pair of   *)
(* disjoint, duplicate-free insertion and deletion sequences, and          *)
(* customUpdate returns one non-negative weight per insertion, with a      *)
(* positive sum when there is an insertion.                                *)
(***************************************************************************)
UnknownUpdateNatureNever(name) == FALSE

UnknownUpdateNature(name) ==
  name \notin {"", "uniform", "preferential", "planted", "match"}

GeneratesBatch(name) == name \in {"", "uniform", "preferential"}

AssignsWeights(name) == name = ""

NoDuplicates(s) == \A j, k \in DOMAIN s : s[j] = s[k] => j = k

Batches(graph) ==
  {b \in [insertions : SeqsUpTo(Vertices \X Vertices, MaxInsertions),
          deletions : SeqsUpTo(graph.E, MaxDeletions)] :
     /\ NoDuplicates(b.insertions)
     /\ NoDuplicates(b.deletions)
     /\ Range(b.insertions) \cap Range(b.deletions) = {}}

WeightValues == {0, 1}

SelectionWeights(ins) ==
  {w \in [1..Len(ins) -> WeightValues] : Len(ins) > 0 => SumSeq(w) > 0}

(***************************************************************************)
(* The round loop's body (lines 308-341), statement by statement: the      *)
(* position reached after each one.                                        *)
(***************************************************************************)
BodyOrder ==
  <<"computeBatchSize", "handleUpdateNature", "applyBatchUpdateU", "normalize",
    "calculateInDegreeDistribution", "degreeDistributionToProbability",
    "createOutputFile", "KLDivergence">>

OrderScoreBeforeWrite ==
  <<"computeBatchSize", "handleUpdateNature", "applyBatchUpdateU", "normalize",
    "calculateInDegreeDistribution", "degreeDistributionToProbability",
    "KLDivergence", "createOutputFile">>

Successor(order, step) ==
  LET k == CHOOSE j \in DOMAIN order : order[j] = step
  IN  IF k = Len(order) THEN "while" ELSE order[k + 1]

StepAfterScoreFirst(step) == Successor(OrderScoreBeforeWrite, step)

StepAfter(step) == Successor(BodyOrder, step)

\* ++counter (line 328)
NextCounterReused(c) == c

NextCounter(c) == c + 1

\* graph.size() * batchSizeRatio, converted to int64_t (line 308)
DerivedBatchSize(graph, ratio) == (size(graph) * ratio[1]) \div ratio[2]

ComputedBatchSize(current, graph, ratio) ==
  IF current = 0 THEN DerivedBatchSize(graph, ratio) ELSE current

(***************************************************************************)
(* State of a run of handleOptions (lines 264-343).                        *)
(***************************************************************************)
VARIABLES
  pc,                         \* the statement handleOptions is at
  inputTransform,             \* options.transforms (line 270)
  updateNature,               \* option update-nature (line 286)
  batchSizeRatio,             \* option batch-size-ratio (line 277)
  configuredBatchSize,        \* option batch-size as configured (line 276)
  configuredMultiBatch,       \* option multi-batch as configured (line 293)
  graph,                      \* line 296
  i,                          \* index of the transform loop (line 300)
  counter,                    \* line 304
  multiBatch,                 \* the loop's count-down (lines 293, 307)
  batchSize,                  \* lines 276, 308
  insertions, deletions,      \* the iteration's batch (line 241)
  weights,                    \* line 309
  normalised_weights_actual,  \* line 317
  inDegreeDistribution,       \* line 318
  normalised_weights_real,    \* line 320
  divergence,                 \* result of the last KLDivergence call (line 337)
  files,                      \* counters of the output files created, in order
  error,                      \* the exception that ended the run, or "none"
  round,                      \* number of loop iterations entered
  trace,                      \* the statements executed in the current iteration
  firstBatchSize,             \* batchSize in effect in the first iteration
  outcomes                    \* per iteration completed: did KLDivergence throw

vars ==
  <<pc, inputTransform, updateNature, batchSizeRatio, configuredBatchSize,
    configuredMultiBatch, graph, i, counter, multiBatch, batchSize, insertions,
    deletions, weights, normalised_weights_actual, inDegreeDistribution,
    normalised_weights_real, divergence, files, error, round, trace,
    firstBatchSize, outcomes>>

options ==
  <<inputTransform, updateNature, batchSizeRatio, configuredBatchSize,
    configuredMultiBatch>>

roundLocals ==
  <<insertions, deletions, weights, normalised_weights_actual,
    inDegreeDistribution, normalised_weights_real>>

history == <<firstBatchSize, outcomes>>

NoDivergence == [threw |-> FALSE, terms |-> <<>>]

EmptyDistribution == [d \in {} |-> 0]

TransformInputs == {"", "transpose", "symmetrize", "set-weights", "rotate"}

UpdateNatureInputs ==
  {"", "uniform", "preferential", "planted", "match", "random"}

BatchSizeInputs == {0, 2}

Ratios == {<<0, 1>>, <<1, 2>>}

Locals ==
  /\ graph = EmptyGraph
  /\ i = 0
  /\ counter = 0
  /\ insertions = <<>>
  /\ deletions = <<>>
  /\ weights = <<>>
  /\ normalised_weights_actual = <<>>
  /\ inDegreeDistribution = EmptyDistribution
  /\ normalised_weights_real = <<>>
  /\ divergence = NoDivergence
  /\ files = <<>>
  /\ error = "none"
  /\ round = 0
  /\ trace = <<>>
  /\ firstBatchSize = 0
  /\ outcomes = <<>>

\* Every configuration of the rounds, after one of a few transform lists.
RoundTransformLists == {<<>>, <<"symmetrize">>, <<"rotate">>}

Init ==
  /\ pc = "start"
  /\ inputTransform \in RoundTransformLists
  /\ updateNature \in UpdateNatureInputs
  /\ batchSizeRatio \in Ratios
  /\ configuredBatchSize \in BatchSizeInputs
  /\ configuredMultiBatch \in -1..MaxMultiBatch
  /\ multiBatch = configuredMultiBatch
  /\ batchSize = configuredBatchSize
  /\ Locals

Throw(what) ==
  /\ error' = what
  /\ pc' = "Done"

\* lines 266-269
Help ==
  /\ pc = "start"
  /\ \E help \in BOOLEAN : pc' = IF help THEN "HelpShown" ELSE "checkInputFile"
  /\ UNCHANGED <<options, graph, i, counter, multiBatch, batchSize, roundLocals,
                 divergence, files, error, round, trace, history>>

\* lines 19-25, 297
checkInputFile ==
  /\ pc = "checkInputFile"
  /\ \E found \in BOOLEAN :
       IF found THEN pc' = "handleInputFormat" /\ error' = error
       ELSE Throw("InputNotFound")
  /\ UNCHANGED <<options, graph, i, counter, multiBatch, batchSize, roundLocals,
                 divergence, files, round, trace, history>>

\* lines 47-57, 298
handleInputFormatStep ==
  /\ pc = "handleInputFormat"
  /\ \E inputFormat \in InputFormats :
       IF UnknownInputFormat(inputFormat)
         THEN Throw("UnknownInputFormat") /\ graph' = graph
       ELSE /\ pc' = "transform"
            /\ error' = error
            /\ IF inputFormat = "matrix-market"
                 THEN graph' \in InputGraphs
                 ELSE graph' = graph
  /\ UNCHANGED <<options, i, counter, multiBatch, batchSize, roundLocals,
                 divergence, files, round, trace, history>>

\* lines 300-303
TransformLoop ==
  /\ pc = "transform"
  /\ IF i < Len(inputTransform)
       THEN IF UnknownInputTransform(inputTransform[i + 1])
              THEN Throw("UnknownInputTransform") /\ UNCHANGED <<graph, i>>
              ELSE /\ graph' = handleInputTransform(inputTransform[i + 1], graph)
                   /\ i' = i + 1
                   /\ UNCHANGED <<pc, error>>
       ELSE pc' = "while" /\ UNCHANGED <<graph, i, error>>
  /\ UNCHANGED <<options, counter, multiBatch, batchSize, roundLocals,
                 divergence, files, round, trace, history>>

\* line 307: while (multiBatch--): the test is for nonzero, and the decrement
\* happens whether it passes or not.  A count-down from a negative value stays
\* away from zero for 2^63 rounds, of which MaxRounds are followed.  What the
\* previous iteration left behind (the batch, lines 241 and 309-320) is gone
\* when the next one starts.
While ==
  /\ pc = "while"
  /\ multiBatch' = multiBatch - 1
  /\ IF multiBatch # 0
       THEN /\ round < MaxRounds
            /\ round' = round + 1
            /\ pc' = "computeBatchSize"
       ELSE /\ round' = round
            /\ pc' = "Done"
  /\ trace' = <<>>
  /\ insertions' = <<>>
  /\ deletions' = <<>>
  /\ weights' = <<>>
  /\ normalised_weights_actual' = <<>>
  /\ inDegreeDistribution' = EmptyDistribution
  /\ normalised_weights_real' = <<>>
  /\ UNCHANGED <<options, graph, i, counter, batchSize, divergence, files, error,
                 history>>

\* line 308
ComputeBatchSize ==
  /\ pc = "computeBatchSize"
  /\ batchSize' = ComputedBatchSize(batchSize, graph, batchSizeRatio)
  /\ firstBatchSize' = IF round = 1 THEN batchSize' ELSE firstBatchSize
  /\ pc' = StepAfter("computeBatchSize")
  /\ trace' = Append(trace, "computeBatchSize")
  /\ UNCHANGED <<options, graph, i, counter, multiBatch, roundLocals, divergence,
                 files, error, round, outcomes>>

\* lines 241-254, called from line 310
GenerateBatch ==
  /\ pc = "handleUpdateNature"
  /\ IF UnknownUpdateNature(updateNature)
       THEN Throw("UnknownUpdateNature") /\ UNCHANGED <<insertions, deletions, weights>>
       ELSE /\ pc' = StepAfter("handleUpdateNature")
            /\ error' = error
            /\ IF GeneratesBatch(updateNature)
                 THEN \E b \in Batches(graph) :
                        /\ insertions' = b.insertions
                        /\ deletions' = b.deletions
                        /\ IF AssignsWeights(updateNature)
                             THEN weights' \in SelectionWeights(b.insertions)
                             ELSE weights' = weights
                 ELSE UNCHANGED <<insertions, deletions, weights>>
  /\ trace' = Append(trace, "handleUpdateNature")
  /\ UNCHANGED <<options, graph, i, counter, multiBatch, batchSize,
                 normalised_weights_actual, inDegreeDistribution,
                 normalised_weights_real, divergence, files, round, history>>

\* line 255
ApplyBatch ==
  /\ pc = "applyBatchUpdateU"
  /\ graph' = applyBatchUpdateU(graph, deletions, insertions)
  /\ pc' = StepAfter("applyBatchUpdateU")
  /\ trace' = Append(trace, "applyBatchUpdateU")
  /\ UNCHANGED <<options, i, counter, multiBatch, batchSize, roundLocals,
                 divergence, files, error, round, history>>

\* line 317
Normalize ==
  /\ pc = "normalize"
  /\ normalised_weights_actual' = normalize(weights)
  /\ pc' = StepAfter("normalize")
  /\ trace' = Append(trace, "normalize")
  /\ UNCHANGED <<options, graph, i, counter, multiBatch, batchSize, insertions,
                 deletions, weights, inDegreeDistribution, normalised_weights_real,
                 divergence, files, error, round, history>>

\* lines 318-319
InDegreeDistribution ==
  /\ pc = "calculateInDegreeDistribution"
  /\ inDegreeDistribution' = calculateInDegreeDistribution(graph)
  /\ pc' = StepAfter("calculateInDegreeDistribution")
  /\ trace' = Append(trace, "calculateInDegreeDistribution")
  /\ UNCHANGED <<options, graph, i, counter, multiBatch, batchSize, insertions,
                 deletions, weights, normalised_weights_actual,
                 normalised_weights_real, divergence, files, error, round, history>>

\* line 320
ToProbability ==
  /\ pc = "degreeDistributionToProbability"
  /\ normalised_weights_real' = degreeDistributionToProbability(inDegreeDistribution)
  /\ pc' = StepAfter("degreeDistributionToProbability")
  /\ trace' = Append(trace, "degreeDistributionToProbability")
  /\ UNCHANGED <<options, graph, i, counter, multiBatch, batchSize, insertions,
                 deletions, weights, normalised_weights_actual,
                 inDegreeDistribution, divergence, files, error, round, history>>

\* lines 326-330: ++counter, createOutputFile (lines 119-125), writeOutput
WriteOutput ==
  /\ pc = "createOutputFile"
  /\ counter' = NextCounter(counter)
  /\ \E created \in BOOLEAN :
       IF created
         THEN /\ files' = Append(files, counter')
              /\ pc' = StepAfter("createOutputFile")
              /\ error' = error
         ELSE Throw("CreateFileFailed") /\ files' = files
  /\ trace' = Append(trace, "createOutputFile")
  /\ UNCHANGED <<options, graph, i, multiBatch, batchSize, roundLocals,
                 divergence, round, history>>

\* lines 336-341
ScoreFidelity ==
  /\ pc = "KLDivergence"
  /\ divergence' = KLDivergence(normalised_weights_real, normalised_weights_actual)
  /\ outcomes' = Append(outcomes, divergence'.threw)
  /\ pc' = StepAfter("KLDivergence")
  /\ trace' = Append(trace, "KLDivergence")
  /\ UNCHANGED <<options, graph, i, counter, multiBatch, batchSize, roundLocals,
                 files, error, round, firstBatchSize>>

Next ==
  \/ Help
  \/ checkInputFile
  \/ handleInputFormatStep
  \/ TransformLoop
  \/ While
  \/ ComputeBatchSize
  \/ GenerateBatch
  \/ ApplyBatch
  \/ Normalize
  \/ InDegreeDistribution
  \/ ToProbability
  \/ WriteOutput
  \/ ScoreFidelity

Spec == Init /\ [][Next]_vars

\* Every transform list, before the rounds of one update nature.
TransformLists == SeqsUpTo(TransformInputs, MaxTransforms)

InitTransforms ==
  /\ pc = "start"
  /\ inputTransform \in TransformLists
  /\ updateNature = "uniform"
  /\ batchSizeRatio = <<1, 2>>
  /\ configuredBatchSize = 0
  /\ configuredMultiBatch \in -1..MaxMultiBatch
  /\ multiBatch = configuredMultiBatch
  /\ batchSize = configuredBatchSize
  /\ Locals

SpecTransforms == InitTransforms /\ [][Next]_vars

(***************************************************************************)
(* KLDivergence on its own: any two short vectors of doubles.              *)
(***************************************************************************)
DoubleInputs == {<<0, 1>>, <<1, 2>>, <<1, 1>>, <<0, 0>>}

KLVectors == SeqsUpTo(DoubleInputs, MaxVecLen)

InitKL ==
  /\ pc = "callKLDivergence"
  /\ normalised_weights_real \in KLVectors
  /\ normalised_weights_actual \in KLVectors
  /\ inputTransform = <<>>
  /\ updateNature = ""
  /\ batchSizeRatio = Zero
  /\ configuredBatchSize = 0
  /\ configuredMultiBatch = 1
  /\ multiBatch = 0
  /\ batchSize = 0
  /\ graph = EmptyGraph
  /\ i = 0
  /\ counter = 0
  /\ insertions = <<>>
  /\ deletions = <<>>
  /\ weights = <<>>
  /\ inDegreeDistribution = EmptyDistribution
  /\ divergence = NoDivergence
  /\ files = <<>>
  /\ error = "none"
  /\ round = 0
  /\ trace = <<>>
  /\ firstBatchSize = 0
  /\ outcomes = <<>>

CallKLDivergence ==
  /\ pc = "callKLDivergence"
  /\ divergence' = KLDivergence(normalised_weights_real, normalised_weights_actual)
  /\ pc' = "returnedKLDivergence"
  /\ UNCHANGED <<options, graph, i, counter, multiBatch, batchSize, roundLocals,
                 files, error, round, trace, history>>

NextKL == CallKLDivergence

SpecKL == InitKL /\ [][NextKL]_vars

(***************************************************************************)
(* The analyzer on its own: calculateInDegreeDistribution and then         *)
(* degreeDistributionToProbability, on any graph of a few vertices.        *)
(***************************************************************************)
InitDist ==
  /\ pc = "callCalculateInDegreeDistribution"
  /\ \E vs \in SUBSET (1..DistVertices) :
       \E es \in SUBSET (vs \X vs) : graph = [V |-> vs, E |-> es]
  /\ inputTransform = <<>>
  /\ updateNature = ""
  /\ batchSizeRatio = Zero
  /\ configuredBatchSize = 0
  /\ configuredMultiBatch = 1
  /\ multiBatch = 0
  /\ batchSize = 0
  /\ i = 0
  /\ counter = 0
  /\ insertions = <<>>
  /\ deletions = <<>>
  /\ weights = <<>>
  /\ normalised_weights_actual = <<>>
  /\ inDegreeDistribution = EmptyDistribution
  /\ normalised_weights_real = <<>>
  /\ divergence = NoDivergence
  /\ files = <<>>
  /\ error = "none"
  /\ round = 0
  /\ trace = <<>>
  /\ firstBatchSize = 0
  /\ outcomes = <<>>

CallCalculateInDegreeDistribution ==
  /\ pc = "callCalculateInDegreeDistribution"
  /\ inDegreeDistribution' = calculateInDegreeDistribution(graph)
  /\ pc' = "callDegreeDistributionToProbability"
  /\ UNCHANGED <<options, graph, i, counter, multiBatch, batchSize, insertions,
                 deletions, weights, normalised_weights_actual,
                 normalised_weights_real, divergence, files, error, round, trace,
                 history>>

CallDegreeDistributionToProbability ==
  /\ pc = "callDegreeDistributionToProbability"
  /\ normalised_weights_real' = degreeDistributionToProbability(inDegreeDistribution)
  /\ pc' = "returnedProbability"
  /\ UNCHANGED <<options, graph, i, counter, multiBatch, batchSize, insertions,
                 deletions, weights, normalised_weights_actual,
                 inDegreeDistribution, divergence, files, error, round, trace,
                 history>>

NextDist ==
  \/ CallCalculateInDegreeDistribution
  \/ CallDegreeDistributionToProbability

SpecDist == InitDist /\ [][NextDist]_vars

(***************************************************************************)
(* Vocabulary of the properties.                                           *)
(***************************************************************************)
IsPrefix(s, t) == Len(s) <= Len(t) /\ \A k \in 1..Len(s) : s[k] = t[k]

Executed(step) == step \in Range(trace)

RecognizedTransforms ==
  {"transpose", "symmetrize", "unsymmetrize", "loop-deadends", "loop-vertices",
   "clear-weights", "set-weights"}

BadTransformAt(k) ==
  /\ k \in 1..Len(inputTransform)
  /\ inputTransform[k] # ""
  /\ inputTransform[k] \notin RecognizedTransforms

HasBadTransform == \E k \in 1..Len(inputTransform) : BadTransformAt(k)

RecognizedUpdateNatures == {"", "uniform", "preferential", "planted", "match"}

InRounds ==
  pc \in {"while", "computeBatchSize", "handleUpdateNature", "applyBatchUpdateU",
          "normalize", "calculateInDegreeDistribution",
          "degreeDistributionToProbability", "createOutputFile", "KLDivergence"}

\* The run ended before the round loop was reached.
EndedBeforeRounds ==
  pc = "Done" /\ error \in {"InputNotFound", "UnknownInputFormat", "UnknownInputTransform"}

(***************************************************************************)
(* C1: the output files created so far carry the counters 1, 2, 3, ... in  *)
(* this order (none reused, skipped or reset); every round whose fidelity  *)
(* was scored, whether KLDivergence threw or not, has its file; and a run  *)
(* configured with N >= 1 rounds that ends without a fatal error has       *)
(* scored N rounds and written exactly the files 1..N.                     *)
(***************************************************************************)
C1_OneFilePerRound ==
  /\ files = [k \in 1..Len(files) |-> k]
  /\ Len(outcomes) <= Len(files)
  /\ (pc = "Done" /\ error = "none" /\ configuredMultiBatch >= 1)
       => /\ Len(files) = configuredMultiBatch
          /\ Len(outcomes) = configuredMultiBatch

C1_Witness ==
  /\ pc = "Done"
  /\ error = "none"
  /\ configuredMultiBatch = 2
  /\ files = <<1, 2>>
  /\ outcomes = <<TRUE, FALSE>>

C3_ScoreBeforeWrite ==
  (configuredMultiBatch >= 1 /\ error = "none")
    => /\ IsPrefix(trace, OrderScoreBeforeWrite)
       /\ Executed("createOutputFile") => Executed("KLDivergence")

(***************************************************************************)
(* C3, amended: within a round the statements run in the order compute     *)
(* batch size, generate, apply, analyze (normalize, in-degree              *)
(* distribution, probability vector), write output, score fidelity.  The   *)
(* in-degree distribution is that of the graph with the round's batch      *)
(* applied, and the round's output file exists when its fidelity is        *)
(* scored.                                                                 *)
(***************************************************************************)
C3_WriteBeforeScore ==
  /\ IsPrefix(trace,
       <<"computeBatchSize", "handleUpdateNature", "applyBatchUpdateU",
         "normalize", "calculateInDegreeDistribution",
         "degreeDistributionToProbability", "createOutputFile", "KLDivergence">>)
  /\ Executed("calculateInDegreeDistribution")
       => /\ Range(insertions) \subseteq graph.E
          /\ Range(deletions) \cap graph.E = {}
          /\ inDegreeDistribution = calculateInDegreeDistribution(graph)
  /\ Executed("KLDivergence")
       => /\ Executed("createOutputFile")
          /\ Len(files) = round
          /\ Len(outcomes) = round

C3_Witness ==
  /\ pc = "while"
  /\ Len(trace) = 8
  /\ trace[7] = "createOutputFile"
  /\ trace[8] = "KLDivergence"
  /\ insertions # <<>>
  /\ deletions # <<>>
  /\ divergence.threw
  /\ files = <<1>>

(***************************************************************************)
(* C4: the round loop never enters more rounds than configured; none when  *)
(* the configured count is zero or negative.                               *)
(***************************************************************************)
C4_NoMoreRoundsThanConfigured == round <= Max(0, configuredMultiBatch)

(***************************************************************************)
(* C5: once normalize has been handed an empty or zero-sum weight          *)
(* sequence, the run has halted with a normalization error: the round      *)
(* goes no further, scores nothing and writes no file.  Stated for the     *)
(* runs of N >= 1 configured rounds under an update nature that leaves the *)
(* weights as constructed.                                                 *)
(***************************************************************************)
C5_NormalizeFails ==
  (configuredMultiBatch >= 1
     /\ updateNature \in {"uniform", "preferential", "planted", "match"}
     /\ Executed("normalize") /\ SumSeq(weights) = 0)
    => /\ pc = "Done"
       /\ error = "NormalizationError"
       /\ trace[Len(trace)] = "normalize"
       /\ Len(files) < round
       /\ Len(outcomes) < round

(***************************************************************************)
(* C6: in a run of N >= 1 configured rounds, after batch generation under  *)
(* the custom, uniform or preferential update nature, the weights handed   *)
(* back hold one entry per inserted edge, with a positive sum when an edge *)
(* was inserted.                                                           *)
(***************************************************************************)
C6_OneWeightPerInsertion ==
  (configuredMultiBatch >= 1 /\ Executed("handleUpdateNature") /\ error = "none"
     /\ updateNature \in {"", "uniform", "preferential"})
    => /\ Len(weights) = Len(insertions)
       /\ Len(insertions) >= 1 => SumSeq(weights) > 0

(***************************************************************************)
(* C7: when the transform list holds an unrecognized name, whatever its    *)
(* position and the configured round count, the transform stage never      *)
(* gets past that name: no round is entered, no batch is generated or      *)
(* applied, the counter stays 0 and no file is written; and a run that     *)
(* read its graph ends with the unknown-transform error.                   *)
(***************************************************************************)
C7_UnknownTransformAborts ==
  HasBadTransform
    => /\ ~InRounds
       /\ round = 0
       /\ trace = <<>>
       /\ insertions = <<>> /\ deletions = <<>>
       /\ counter = 0
       /\ files = <<>>
       /\ pc = "transform" => \E k \in (i + 1)..Len(inputTransform) : BadTransformAt(k)
       /\ pc = "Done" => error \in {"InputNotFound", "UnknownInputFormat",
                                    "UnknownInputTransform"}
       /\ (pc = "Done" /\ i > 0) => error = "UnknownInputTransform"

C7_Witness ==
  /\ pc = "Done"
  /\ error = "UnknownInputTransform"
  /\ Len(inputTransform) = 2
  /\ ~BadTransformAt(1)
  /\ BadTransformAt(2)
  /\ i = 1
  /\ graph.E # {}
  /\ configuredMultiBatch = 2

(***************************************************************************)
(* C8, as stated: a run with an unrecognized update nature that reaches    *)
(* the round loop ends in the unknown-update-nature error, for every       *)
(* configured round count.                                                 *)
(***************************************************************************)
C8_AlwaysConfigError ==
  (updateNature \notin RecognizedUpdateNatures /\ pc = "Done" /\ ~EndedBeforeRounds)
    => error = "UnknownUpdateNature"

(***************************************************************************)
(* C8, amended: with an unrecognized update nature, a run that reaches the *)
(* round loop with a nonzero configured round count ends in the            *)
(* unknown-update-nature error, raised in its first round; with a round    *)
(* count of zero it ends without error.  Either way nothing after batch    *)
(* generation runs: once the transform stage is over the graph never       *)
(* changes, and no file is written.                                        *)
(***************************************************************************)
C8_UnknownUpdateNatureState ==
  updateNature \notin RecognizedUpdateNatures
    => /\ files = <<>>
       /\ counter = 0
       /\ round <= 1
       /\ insertions = <<>> /\ deletions = <<>>
       /\ pc \in {"start", "HelpShown", "checkInputFile", "handleInputFormat",
                  "transform", "while", "computeBatchSize", "handleUpdateNature",
                  "Done"}
       /\ (pc = "Done" /\ ~EndedBeforeRounds /\ configuredMultiBatch # 0)
            => error = "UnknownUpdateNature" /\ round = 1
       /\ (pc = "Done" /\ ~EndedBeforeRounds /\ configuredMultiBatch = 0)
            => error = "none" /\ round = 0

C8_UnknownUpdateNatureStep ==
  (updateNature \notin RecognizedUpdateNatures /\ InRounds)
    => graph' = graph /\ files' = files

C8_UnknownUpdateNature ==
  []C8_UnknownUpdateNatureState /\ [][C8_UnknownUpdateNatureStep]_vars

C8_Witness ==
  /\ updateNature \notin RecognizedUpdateNatures
  /\ pc = "Done"
  /\ error = "UnknownUpdateNature"
  /\ round = 1
  /\ configuredMultiBatch = 2
  /\ inputTransform = <<"symmetrize">>
  /\ Cardinality(graph.E) = 2

(***************************************************************************)
(* C9: KLDivergence(P, Q) throws exactly when some index below             *)
(* max(len(P), len(Q)) has P nonzero and Q zero, an index beyond a         *)
(* vector's length counting as 0.0; otherwise it returns a value.          *)
(***************************************************************************)
EntryAt(v, idx) == IF idx < Len(v) THEN v[idx + 1] ELSE <<0, 1>>

NonZero(x) == ~(x[1] = 0 /\ x[2] # 0)

C9_ThrowsExactly ==
  pc = "returnedKLDivergence"
    => LET P == normalised_weights_real
           Q == normalised_weights_actual
           n == IF Len(P) >= Len(Q) THEN Len(P) ELSE Len(Q)
       IN  divergence.threw
             <=> \E idx \in 0..(n - 1) :
                   NonZero(EntryAt(P, idx)) /\ ~NonZero(EntryAt(Q, idx))

C9_Witness ==
  /\ pc = "returnedKLDivergence"
  /\ divergence.threw
  /\ normalised_weights_real = <<<<1, 2>>, <<1, 2>>>>
  /\ normalised_weights_actual = <<<<1, 1>>>>

(***************************************************************************)
(* C10: the probability vector of a graph's in-degree distribution.        *)
(***************************************************************************)
AddD(a, b) == <<a[1] * b[2] + b[1] * a[2], a[2] * b[2]>>

RECURSIVE SumD(_)
SumD(v) == IF v = <<>> THEN <<0, 1>> ELSE AddD(v[1], SumD(Tail(v)))

EqD(a, b) == a[2] # 0 /\ b[2] # 0 /\ a[1] * b[2] = b[1] * a[2]

DegreesOf(g) == {Cardinality({e \in g.E : e[2] = u}) : u \in g.V}

\* the k-th smallest in-degree of g, and how many vertices have it
KthDegree(g, k) ==
  CHOOSE d \in DegreesOf(g) : Cardinality({c \in DegreesOf(g) : c < d}) = k - 1

CountWithDegree(g, d) ==
  Cardinality({u \in g.V : Cardinality({e \in g.E : e[2] = u}) = d})

EntriesAreShares(g, v) ==
  /\ Len(v) = Cardinality(DegreesOf(g))
  /\ \A k \in 1..Len(v) :
       EqD(v[k], <<CountWithDegree(g, KthDegree(g, k)), Cardinality(g.V)>>)

ExampleDistribution == (0 :> 2) @@ (1 :> 3) @@ (2 :> 5)

ExampleHolds ==
  LET v == degreeDistributionToProbability(ExampleDistribution)
  IN  Len(v) = 3 /\ EqD(v[1], <<2, 10>>) /\ EqD(v[2], <<3, 10>>) /\ EqD(v[3], <<5, 10>>)

(***************************************************************************)
(* C10, as stated: for every graph, the empty one included, the vector has *)
(* one entry per distinct in-degree, the i-th being count/total of the     *)
(* i-th smallest in-degree, and its entries sum to 1.                      *)
(***************************************************************************)
C10_AlwaysSumsToOne ==
  pc = "returnedProbability"
    => /\ EntriesAreShares(graph, normalised_weights_real)
       /\ EqD(SumD(normalised_weights_real), <<1, 1>>)

(***************************************************************************)
(* C10, amended: for every graph the vector has one entry per distinct     *)
(* in-degree, the i-th being count/total of the i-th smallest in-degree;   *)
(* its entries sum to 1 when the graph has a vertex, and it is empty (sum  *)
(* 0) when the graph has none.  {0:2, 1:3, 2:5} gives [0.2, 0.3, 0.5].     *)
(***************************************************************************)
C10_SumsToOneUnlessEmpty ==
  /\ ExampleHolds
  /\ pc = "returnedProbability"
       => /\ EntriesAreShares(graph, normalised_weights_real)
          /\ graph.V # {} => EqD(SumD(normalised_weights_real), <<1, 1>>)
          /\ graph.V = {} => normalised_weights_real = <<>>

C10_Witness ==
  /\ pc = "returnedProbability"
  /\ graph.V = {1, 2, 3}
  /\ graph.E = {<<1, 2>>, <<1, 3>>, <<2, 3>>}
  /\ normalised_weights_real = <<<<1, 3>>, <<1, 3>>, <<1, 3>>>>

====
